---- MODULE Spec2Model ----
(***************************************************************************)
(* Model of how-ai-works/src/how_ai_works/api.py: the lazily loaded        *)
(* model/tokenizer pair, the rate-limited predict endpoint, the load       *)
(* trigger and the health endpoint.                                        *)
(*                                                                         *)
(* Every endpoint is an `async def` that never awaits, so the event loop   *)
(* runs one handler from its first to its last statement before it starts  *)
(* the next one.  Requests that have arrived wait in "pending".  A handler *)
(* is modelled as a sequence of steps (its position is req[r].pc) so that  *)
(* the intermediate values of the globals are states of the model.         *)
(*                                                                         *)
(* Text is a sequence of characters; a character is a one-character        *)
(* string, or a name ("NUL", "DEL", "NBSP", "ELL", "BSLASH", "BTICK") for a *)
(* character that has no convenient TLA+ literal.                          *)
(***************************************************************************)
EXTENDS Integers, Sequences, FiniteSets, TLC

\* ------------------------------------------------------------------ text

Min(a, b) == IF a <= b THEN a ELSE b

\* Python None.
None == "None"

\* The control characters 0x00-0x1F and 0x7F-0x9F, as far as the modelled
\* alphabet goes.
ControlChars == {"\n", "\t", "NUL", "DEL"}

\* What str.strip() and the pattern \s treat as whitespace.
Whitespace == {" ", "\n", "\t", "NBSP"}

\* The character class of the candidate filter's symbol pattern (line 523).
SymbolChars ==
    {"<", ">", "{", "}", "[", "]", "BSLASH", "|", "BTICK", "~", "@", "#", "$", "%",
     "^", "&", "*", "+", "="}

UpperCase ==
    <<"A", "B", "C", "D", "E", "F", "G", "H", "I", "J", "K", "L", "M",
      "N", "O", "P", "Q", "R", "S", "T", "U", "V", "W", "X", "Y", "Z">>

LowerCase ==
    <<"a", "b", "c", "d", "e", "f", "g", "h", "i", "j", "k", "l", "m",
      "n", "o", "p", "q", "r", "s", "t", "u", "v", "w", "x", "y", "z">>

Digits == {"0", "1", "2", "3", "4", "5", "6", "7", "8", "9"}

\* Lower without re.IGNORECASE.
SameCase(c) == c

\* re.IGNORECASE: compare the lower-case forms.
Lower(c) ==
    IF \E i \in 1..26 : UpperCase[i] = c
    THEN LowerCase[CHOOSE i \in 1..26 : UpperCase[i] = c]
    ELSE c

\* The pattern \w.
WordChars ==
    {UpperCase[i] : i \in 1..26} \cup {LowerCase[i] : i \in 1..26}
        \cup Digits \cup {"_"}

\* RemoveControl for the class 0x00-0x1F alone.
RemoveControlLow(s) == SelectSeq(s, LAMBDA c : c \notin {"\n", "\t", "NUL"})

\* re.sub of the control-character class by the empty string.
RemoveControl(s) == SelectSeq(s, LAMBDA c : c \notin ControlChars)

\* s.strip()
RECURSIVE LStrip(_)
LStrip(s) ==
    IF s # <<>> /\ Head(s) \in Whitespace THEN LStrip(Tail(s)) ELSE s

RECURSIVE RStrip(_)
RStrip(s) ==
    IF s # <<>> /\ s[Len(s)] \in Whitespace
    THEN RStrip(SubSeq(s, 1, Len(s) - 1))
    ELSE s

Strip(s) == RStrip(LStrip(s))

\* re.sub(r'\s+', ' ', s): every maximal run of whitespace becomes one
\* space.  The first character of a run becomes the space, the others of
\* the run (marked "") go.
CollapseWhitespace(s) ==
    SelectSeq([i \in 1..Len(s) |->
                  IF s[i] \notin Whitespace THEN s[i]
                  ELSE IF i > 1 /\ s[i - 1] \in Whitespace THEN ""
                  ELSE " "],
              LAMBDA c : c # "")

\* The text of a pattern without metacharacters, as characters.
Lit(str) ==
    CASE str = "<script"     -> <<"<", "s", "c", "r", "i", "p", "t">>
      [] str = "javascript:" -> <<"j", "a", "v", "a", "s", "c", "r", "i", "p", "t", ":">>
      [] str = "data:"       -> <<"d", "a", "t", "a", ":">>
      [] str = "vbscript:"   -> <<"v", "b", "s", "c", "r", "i", "p", "t", ":">>
      [] str = "on"          -> <<"o", "n">>
      [] str = "eval"        -> <<"e", "v", "a", "l">>
      [] str = "expression"  -> <<"e", "x", "p", "r", "e", "s", "s", "i", "o", "n">>

\* lit occurs in s at position i, letter case ignored.
MatchAt(s, i, lit) ==
    /\ i >= 1
    /\ i + Len(lit) - 1 <= Len(s)
    /\ \A j \in 1..Len(lit) : Lower(s[i + j - 1]) = lit[j]

\* The first position at or after i whose character is not in class.
RECURSIVE SkipClass(_, _, _)
SkipClass(s, i, class) ==
    IF i <= Len(s) /\ s[i] \in class THEN SkipClass(s, i + 1, class) ELSE i

\* re.search(lit, s, re.IGNORECASE)
SearchLit(s, lit) == \E i \in 1..Len(s) : MatchAt(s, i, lit)

\* re.search(r'<script[^>]*>', s, re.IGNORECASE)
SearchScriptTag(s) ==
    \E i \in 1..Len(s) :
        /\ MatchAt(s, i, Lit("<script"))
        /\ \E j \in (i + 7)..Len(s) : s[j] = ">"

\* re.search(r'on\w+\s*=', s, re.IGNORECASE)
SearchEventHandler(s) ==
    \E i \in 1..Len(s) :
        /\ MatchAt(s, i, Lit("on"))
        /\ \E e \in (i + 2)..Len(s) :
              /\ \A j \in (i + 2)..e : s[j] \in WordChars
              /\ LET q == SkipClass(s, e + 1, Whitespace)
                 IN  q <= Len(s) /\ s[q] = "="

\* re.search(name + r'\s*\(', s, re.IGNORECASE)
SearchCall(s, name) ==
    \E i \in 1..Len(s) :
        /\ MatchAt(s, i, name)
        /\ LET q == SkipClass(s, i + Len(name), Whitespace)
           IN  q <= Len(s) /\ s[q] = "("

\* The minimum block length and the minimum number of repeats after the
\* first block in r'(.{10,})\1{3,}'.
RepeatBlockMin == 10

RepeatMoreMin == 3

\* SearchRepetition for a block that occurs 3 times.
SearchRepetitionThree(s) ==
    \E i \in 1..Len(s) :
        \E n \in RepeatBlockMin..Len(s) :
            /\ i + RepeatMoreMin * n - 1 <= Len(s)
            /\ \A j \in 0..(n - 1) : s[i + j] # "\n"
            /\ \A m \in 1..(RepeatMoreMin - 1) :
                  \A j \in 0..(n - 1) : s[i + m * n + j] = s[i + j]

\* re.search(r'(.{10,})\1{3,}', s)
SearchRepetition(s) ==
    \E i \in 1..Len(s) :
        \E n \in RepeatBlockMin..Len(s) :
            /\ i + (RepeatMoreMin + 1) * n - 1 <= Len(s)
            /\ \A j \in 0..(n - 1) : s[i + j] # "\n"
            /\ \A m \in 1..RepeatMoreMin :
                  \A j \in 0..(n - 1) : s[i + m * n + j] = s[i + j]

\* Field(min_length=1, max_length=200) of input_phrase, and the validator's
\* own limit.
MinPhraseLen == 1

MaxPhraseLen == 200

\* raise ValueError(msg): what a validator answers instead of a value
\* (pydantic answers 422 with msg).  No text is a ValueError: a character
\* is never "ValueError".
ValueError(msg) == <<"ValueError", msg>>

IsValueError(x) == Len(x) = 2 /\ x[1] = "ValueError"

\* sanitized with the whitespace collapsed before the control characters
\* are removed.
sanitized_collapse_first(v) == Strip(RemoveControl(CollapseWhitespace(v)))

\* sanitized = re.sub(control characters, '', v), then
\* re.sub(r'\s+', ' ', sanitized).strip()
sanitized_text(v) == Strip(CollapseWhitespace(RemoveControl(v)))

\* PredictionRequest.validate_input_phrase: the sanitized phrase, or the
\* ValueError it raises.
validate_input_phrase(v) ==
    IF v = <<>> \/ Strip(v) = <<>>
    THEN ValueError("Input phrase cannot be empty")
    ELSE LET sanitized == sanitized_text(v)
         IN  IF Len(sanitized) = 0
             THEN ValueError("Input phrase cannot be empty after sanitization")
             ELSE IF Len(sanitized) > MaxPhraseLen
             THEN ValueError("Input phrase too long (max 200 characters)")
             ELSE IF \/ SearchScriptTag(sanitized)
                     \/ SearchLit(sanitized, Lit("javascript:"))
                     \/ SearchLit(sanitized, Lit("data:"))
                     \/ SearchLit(sanitized, Lit("vbscript:"))
                     \/ SearchEventHandler(sanitized)
                     \/ SearchCall(sanitized, Lit("eval"))
                     \/ SearchCall(sanitized, Lit("expression"))
                  THEN ValueError("Input contains potentially malicious content")
             ELSE IF SearchRepetition(sanitized)
             THEN ValueError("Input contains excessive repetition")
             ELSE sanitized

\* Field(ge=1, le=10) of top_k_tokens and validate_top_k.
MinTopK == 1

MaxTopK == 10

validate_top_k(v) == ~(v < MinTopK \/ v > MaxTopK)

\* What pydantic reports for input_phrase: the field constraints come
\* before the validator.  "none" when the field is accepted.
PhraseError(phrase) ==
    IF Len(phrase) < MinPhraseLen
    THEN "ensure this value has at least 1 characters"
    ELSE IF Len(phrase) > MaxPhraseLen
    THEN "ensure this value has at most 200 characters"
    ELSE IF IsValueError(validate_input_phrase(phrase))
    THEN validate_input_phrase(phrase)[2]
    ELSE "none"

\* What pydantic reports for top_k_tokens.
TopKError(top_k) ==
    IF top_k < MinTopK
    THEN "ensure this value is greater than or equal to 1"
    ELSE IF top_k > MaxTopK
    THEN "ensure this value is less than or equal to 10"
    ELSE IF ~validate_top_k(top_k)
    THEN "top_k_tokens must be between 1 and 10"
    ELSE "none"

\* PayloadPhrase with the submitted text kept in the field.
PayloadPhraseRaw(v) == v

\* payload.input_phrase: the field holds what the validator returned.
PayloadPhrase(v) == validate_input_phrase(v)

\* PayloadValid with top_k_tokens left unchecked.
PayloadValidPhraseOnly(phrase, top_k) ==
    /\ Len(phrase) >= MinPhraseLen
    /\ Len(phrase) <= MaxPhraseLen
    /\ ~IsValueError(validate_input_phrase(phrase))

\* pydantic builds PredictionRequest: the field constraints, then the
\* validators.
PayloadValid(phrase, top_k) ==
    /\ Len(phrase) >= MinPhraseLen
    /\ Len(phrase) <= MaxPhraseLen
    /\ ~IsValueError(validate_input_phrase(phrase))
    /\ top_k >= MinTopK
    /\ top_k <= MaxTopK
    /\ validate_top_k(top_k)

\* ------------------------------------------------- the prediction engine

\* The limit of len(predicted_word) in the candidate filter.
MaxWordLen == 50

\* What tokenizer.decode answers for each token id of the modelled
\* vocabulary: a text, or DecodeError when it raises.
DecodeError == <<"DecodeError">>

LongWord == [i \in 1..(MaxWordLen + 1) |-> "a"]

DecodeTable ==
    << <<" ", "P", "a", "r", "i", "s">>,
       <<".", ".", ".">>,
       DecodeError,
       <<"@", "#">>,
       <<" ", "t", "h", "e">>,
       <<>>,
       <<"ELL">>,
       <<".", " ", ".">>,
       LongWord,
       <<"NUL", " ", "a">>,
       <<".", ".">>,
       <<".", " ", ".", " ", ".", " ", ".">>,
       <<"NUL", ".", ".", ".">>,
       <<"NUL", " ", "ELL">>,
       <<"=">>,
       <<"a", ".", ".">>,
       <<".">>,
       <<"@", "a">>,
       <<".", "NBSP", ".", "\t">>,
       <<".", "\n", ".">>,
       <<"a", " ", "NUL">> >>

\* tokenizer.decode([token_id], skip_special_tokens=True)
Decode(token_id) ==
    IF token_id <= Len(DecodeTable) THEN DecodeTable[token_id] ELSE <<"a">>

CountOf(s, c) == Cardinality({i \in 1..Len(s) : s[i] = c})

AllIn(s, class) == \A i \in 1..Len(s) : s[i] \in class

\* re.search(r'^\.{2,}\s*$', w)
SearchDotsThenSpace(w) ==
    \E n \in 2..Len(w) :
        /\ \A i \in 1..n : w[i] = "."
        /\ \A i \in (n + 1)..Len(w) : w[i] \in Whitespace

\* re.search(r'^\s*\.\s*\.\s*\.?\s*$', w)
SearchSpacedEllipsis(w) ==
    AllIn(w, Whitespace \cup {"."}) /\ CountOf(w, ".") \in {2, 3}

\* re.search(r'^(\s*\.\s*){2,}$', w)
SearchSpacedDots(w) ==
    AllIn(w, Whitespace \cup {"."}) /\ CountOf(w, ".") >= 2

\* IsValidToken as it was before the checks for dots were added.
IsValidTokenUnhardened(predicted_word) ==
    /\ predicted_word # <<>>
    /\ Len(predicted_word) > 0
    /\ Len(predicted_word) <= MaxWordLen
    /\ ~(AllIn(predicted_word, SymbolChars))

\* is_valid_token of predict_next_word.
IsValidToken(predicted_word) ==
    /\ predicted_word # <<>>
    /\ Len(predicted_word) > 0
    /\ Len(predicted_word) <= MaxWordLen
    /\ ~(AllIn(predicted_word, SymbolChars))
    /\ ~SearchDotsThenSpace(predicted_word)
    /\ ~SearchSpacedEllipsis(predicted_word)
    /\ ~SearchSpacedDots(predicted_word)
    /\ Strip(predicted_word) # <<".", ".", ".">>
    /\ Strip(predicted_word) # <<"ELL">>

\* The decoded, stripped and cleaned word of a candidate.
PredictedWord(token_id) == RemoveControl(Strip(Decode(token_id)))

\* AppendCandidate with the candidate put in front of the list.
AppendCandidateFront(predictions, token_id, prob) ==
    IF Decode(token_id) = DecodeError THEN predictions
    ELSE IF IsValidToken(PredictedWord(token_id))
         THEN <<[word |-> PredictedWord(token_id),
                 probability |-> prob,
                 token_id |-> token_id]>> \o predictions
         ELSE predictions

\* AppendCandidate without the try/except around the candidate: a decode
\* failure discards the candidates gathered so far.
AppendCandidateAbort(predictions, token_id, prob) ==
    IF Decode(token_id) = DecodeError THEN <<>>
    ELSE IF IsValidToken(PredictedWord(token_id))
         THEN Append(predictions,
                     [word |-> PredictedWord(token_id),
                      probability |-> prob,
                      token_id |-> token_id])
         ELSE predictions

\* One pass of the loop over the top-k candidates: the candidate is
\* appended when it decodes and passes the filter, and skipped otherwise.
AppendCandidate(predictions, token_id, prob) ==
    IF Decode(token_id) = DecodeError THEN predictions
    ELSE IF IsValidToken(PredictedWord(token_id))
         THEN Append(predictions,
                     [word |-> PredictedWord(token_id),
                      probability |-> prob,
                      token_id |-> token_id])
         ELSE predictions

\* The loop  for i in range(payload.top_k_tokens)  over the ranked
\* candidates, from candidate i on.
RECURSIVE FormatResults(_, _, _, _)
FormatResults(predictions, top_k_indices, top_k_probs, i) ==
    IF i > Len(top_k_indices) THEN predictions
    ELSE FormatResults(
             AppendCandidate(predictions, top_k_indices[i], top_k_probs[i]),
             top_k_indices, top_k_probs, i + 1)

\* Probabilities are integers in units of 1/ProbScale.
ProbScale == 1000

RECURSIVE Pow2(_)
Pow2(n) == IF n = 0 THEN 1 ELSE 2 * Pow2(n - 1)

RECURSIVE SumWeights(_, _)
SumWeights(logits, ids) ==
    IF ids = {} THEN 0
    ELSE LET t == CHOOSE x \in ids : TRUE
         IN  Pow2(logits[t]) + SumWeights(logits, ids \ {t})

\* F.softmax(logits, dim=-1), with base 2 for e.
Softmax(logits) ==
    [t \in DOMAIN logits |->
        (Pow2(logits[t]) * ProbScale) \div SumWeights(logits, DOMAIN logits)]

\* torch.topk(probabilities, k): the rankings it may return, each a
\* sequence of k distinct token ids with the k largest probabilities in
\* non-increasing order (equal probabilities in either order).
RECURSIVE TopKOf(_, _, _)
TopKOf(probabilities, k, ids) ==
    IF k = 0 THEN {<<>>}
    ELSE UNION {{<<t>> \o rest : rest \in TopKOf(probabilities, k - 1, ids \ {t})} :
                   t \in {x \in ids : \A y \in ids : probabilities[y] <= probabilities[x]}}

TopK(probabilities, k) == TopKOf(probabilities, k, DOMAIN probabilities)

\* CompleteSentence without the space between phrase and word.
CompleteSentenceJoined(input_phrase, best_word) ==
    Strip(input_phrase \o best_word)

\* f"{input_phrase} {best_word}".strip()
CompleteSentence(input_phrase, best_word) ==
    Strip(input_phrase \o <<" ">> \o best_word)

\* ---------------------------------------------------------- the server

VARIABLES
    model,                 \* global model: None, or the handle and its mode
    tokenizer,             \* global tokenizer: None or the handle
    model_loading_status,  \* "not_loaded", "loading", "loaded", "error"
    model_name,            \* None until a load attempt resolves it
    storage,               \* limiter storage: hits of each key in its window
    req                    \* the request of each connection and its progress

vars == <<model, tokenizer, model_loading_status, model_name, storage, req>>

\* The globals of the module.
Globals == <<model, tokenizer, model_loading_status, model_name>>

\* The connections, and the client addresses (get_remote_address) that are
\* the keys of the limiter.
Reqs == DOMAIN req

Clients == DOMAIN storage

\* The amount of the limit "30/minute" of POST /api/predict.
RateLimit == 30

\* get_model_name() in the local profile without MODEL_NAME.
get_model_name == "HuggingFaceTB/SmolLM2-1.7B"

\* The limit on the encoded length, and the truncation of tokenizer.encode.
MaxInputTokens == 100

EncodeMaxLength == 512

IdleReq ==
    [kind |-> "none", pc |-> "idle", client |-> 0, raw |-> <<>>,
     phrase |-> <<>>,
     top_k |-> 0, retry |-> FALSE, overlap |-> {}, seen |-> "none",
     loads |-> 0, exc |-> 0, seq |-> 0, http |-> 0, status |-> "none",
     detail |-> "none", ranked |-> <<>>, predictions |-> <<>>,
     input_phrase |-> <<>>, tokens |-> -1, forwards |-> 0,
     complete_sentence |-> <<>>, health |-> <<>>]

\* A handler is on the event loop from its first step to its answer.
OnLoop(rq) == rq.pc \notin {"idle", "pending", "done"}

InFlight(rq) == rq.pc \notin {"idle", "done"}

Busy == \E s \in Reqs : OnLoop(req[s])

\* The answer of a handler: the status code and the JSON fields.
Reply(rq, http, status, detail) ==
    [rq EXCEPT !.pc = "done", !.http = http, !.status = status,
               !.detail = detail]

\* The module as imported: nothing loaded, no hits, with conns connections
\* and clients client addresses.
Start(conns, clients) ==
    /\ model = None
    /\ tokenizer = None
    /\ model_loading_status = "not_loaded"
    /\ model_name = None
    /\ storage = [c \in 1..clients |-> 0]
    /\ req = [r \in 1..conns |-> IdleReq]

\* Hits that key c has made or is about to make in its window.
HitsDue(c) ==
    storage[c] + Cardinality({s \in Reqs : /\ req[s].pc = "pending"
                                           /\ req[s].kind = "predict"
                                           /\ req[s].client = c})

\* A client sends a request: it waits for the event loop.  burst bounds
\* the predict requests one client sends in one window.  retry tells that
\* the last answer on this connection was a 429.
Arrive(r, kinds, phrases, ks, burst) ==
    /\ req[r].pc = "idle"
    /\ \E kind \in kinds :
          \E fields \in IF kind = "predict"
                         THEN {f \in Clients \X phrases \X ks : HitsDue(f[1]) < burst}
                         ELSE {<<0, <<>>, 0>>} :
              LET others == {s \in Reqs \ {r} : InFlight(req[s])}
              IN  req' = [s \in Reqs |->
                            IF s = r
                            THEN [IdleReq EXCEPT
                                     !.kind = kind, !.pc = "pending",
                                     !.retry = req[r].retry,
                                     !.client = fields[1],
                                     !.raw = fields[2],
                                     !.phrase = fields[2], !.top_k = fields[3],
                                     !.overlap = others]
                            ELSE IF s \in others
                                 THEN [req[s] EXCEPT !.overlap = @ \cup {r}]
                                 ELSE req[s]]
    /\ UNCHANGED <<model, tokenizer, model_loading_status, model_name, storage>>

\* The client has read the answer; the connection is free again.
Close(r) ==
    /\ req[r].pc = "done"
    /\ req' = [s \in Reqs |->
                 IF s = r THEN [IdleReq EXCEPT !.retry = (req[r].http = 429)]
                 ELSE [req[s] EXCEPT !.overlap = @ \ {r}]]
    /\ UNCHANGED <<model, tokenizer, model_loading_status, model_name, storage>>

\* The window of key c has passed: the storage forgets the key.
WindowElapse(c) ==
    /\ storage[c] > 0
    /\ storage' = [storage EXCEPT ![c] = 0]
    /\ UNCHANGED <<model, tokenizer, model_loading_status, model_name, req>>

\* limiter._storage.reset() of the tests.
StorageReset ==
    /\ \E c \in Clients : storage[c] > 0
    /\ storage' = [c \in Clients |-> 0]
    /\ UNCHANGED <<model, tokenizer, model_loading_status, model_name, req>>

\* The content of the 429 answer.
rate_limit_exceeded_handler(rq) ==
    Reply(rq, 429, "Rate limit exceeded", "30 per 1 minute")

\* LimitAdmits with the last hit of the budget refused.
LimitAdmitsStrict(n) == n < RateLimit

\* The limit of the route admits a hit that makes the key's count n.
LimitAdmits(n) == n <= RateLimit

\* POST /api/predict up to the first statement of predict_next_word:
\* pydantic validates the payload, then the limiter counts the hit.
predict_entry(r) ==
    /\ req[r].pc = "pending"
    /\ req[r].kind = "predict"
    /\ ~Busy
    /\ IF ~PayloadValid(req[r].phrase, req[r].top_k)
       THEN /\ req' = [req EXCEPT ![r] =
                          Reply(@, 422, "none",
                                IF PhraseError(req[r].phrase) # "none"
                                THEN PhraseError(req[r].phrase)
                                ELSE TopKError(req[r].top_k))]
            /\ UNCHANGED storage
       ELSE LET c == req[r].client
                n == storage[c] + 1
                rq == [req[r] EXCEPT !.seq = n,
                          !.phrase = PayloadPhrase(@)]
            IN  /\ storage' = [storage EXCEPT ![c] = n]
                /\ req' = [req EXCEPT ![r] =
                              IF LimitAdmits(n)
                              THEN [rq EXCEPT !.pc = "ensure"]
                              ELSE rate_limit_exceeded_handler(rq)]
    /\ UNCHANGED <<model, tokenizer, model_loading_status, model_name>>

\* if model is None or tokenizer is None  (ensure_model_loaded)
EnsureNeeded == model = None \/ tokenizer = None

ensure_model_loaded(r) ==
    /\ req[r].pc = "ensure"
    /\ req' = [req EXCEPT ![r].pc = IF EnsureNeeded THEN "load" ELSE "encode"]
    /\ UNCHANGED <<model, tokenizer, model_loading_status, model_name, storage>>

\* What the caller of load_model_and_tokenizer does when it returns.
LoadReturned(rq) ==
    IF rq.kind = "load"
    THEN Reply(rq, 200, "success", "Model loaded successfully")
    ELSE [rq EXCEPT !.pc = "encode"]

\* LoadModelExcept without the except clause: the exception leaves the
\* endpoint.
LoadModelPropagate(rq) ==
    Reply(rq, rq.exc, "none", "Failed to initialize AI model")

\* except HTTPException as e  of load_model.
LoadModelExcept(rq) ==
    Reply(rq, 200, "error", "Failed to load model")

\* LoadRaised with the exception swallowed: the caller goes on.
LoadSwallowed(rq) == LoadReturned(rq)

\* What the caller of load_model_and_tokenizer does when it raises
\* HTTPException(status_code=500): load_model catches it, predict_next_word
\* lets it pass to the framework.
LoadRaised(rq) ==
    LET raised == [rq EXCEPT !.exc = 500]
    IN  IF rq.kind = "load"
        THEN LoadModelExcept(raised)
        ELSE Reply(raised, raised.exc, "none", "Failed to initialize AI model")

\* POST /api/model/load up to the call of load_model_and_tokenizer.
load_model(r) ==
    /\ req[r].pc = "pending"
    /\ req[r].kind = "load"
    /\ ~Busy
    /\ LET rq == [req[r] EXCEPT !.seen = model_loading_status]
       IN  req' = [req EXCEPT ![r] =
                     IF model_loading_status = "loading"
                     THEN Reply(rq, 200, "already_loading",
                                "Model is already being loaded")
                     ELSE IF model_loading_status = "loaded"
                     THEN Reply(rq, 200, "already_loaded",
                                "Model is already loaded and ready")
                     ELSE [rq EXCEPT !.pc = "load"]]
    /\ UNCHANGED <<model, tokenizer, model_loading_status, model_name, storage>>

\* if model is None or tokenizer is None  (load_model_and_tokenizer)
LoadNeeded == model = None \/ tokenizer = None

\* load_model_and_tokenizer up to the try block.
load_begin(r) ==
    /\ req[r].pc = "load"
    /\ IF LoadNeeded
       THEN /\ model_loading_status' = "loading"
            /\ model_name' = get_model_name
            /\ req' = [req EXCEPT ![r].pc = "load_tokenizer", ![r].loads = @ + 1]
       ELSE /\ req' = [req EXCEPT ![r] = LoadReturned(@)]
            /\ UNCHANGED <<model_loading_status, model_name>>
    /\ UNCHANGED <<model, tokenizer, storage>>

\* FailedStatus with the status put back to its first value.
FailedStatusReset == "not_loaded"

\* The status the except clause of load_model_and_tokenizer sets.
FailedStatus == "error"

\* AutoTokenizer.from_pretrained and the pad token.
load_tokenizer(r) ==
    /\ req[r].pc = "load_tokenizer"
    /\ \E ok \in BOOLEAN :
          IF ok
          THEN /\ tokenizer' = "tokenizer"
               /\ req' = [req EXCEPT ![r].pc = "load_weights"]
               /\ UNCHANGED model_loading_status
          ELSE /\ model_loading_status' = FailedStatus
               /\ req' = [req EXCEPT ![r] = LoadRaised(@)]
               /\ UNCHANGED tokenizer
    /\ UNCHANGED <<model, model_name, storage>>

\* AutoModelForCausalLM.from_pretrained
load_weights(r) ==
    /\ req[r].pc = "load_weights"
    /\ \E ok \in BOOLEAN :
          IF ok
          THEN /\ model' = "model"
               /\ req' = [req EXCEPT ![r].pc = "model_eval"]
               /\ UNCHANGED model_loading_status
          ELSE /\ model_loading_status' = FailedStatus
               /\ req' = [req EXCEPT ![r] = LoadRaised(@)]
               /\ UNCHANGED model
    /\ UNCHANGED <<tokenizer, model_name, storage>>

\* model.eval() and model_loading_status = "loaded"
model_eval(r) ==
    /\ req[r].pc = "model_eval"
    /\ \E ok \in BOOLEAN :
          IF ok
          THEN /\ model' = "model.eval"
               /\ model_loading_status' = "loaded"
               /\ req' = [req EXCEPT ![r] = LoadReturned(@)]
          ELSE /\ model_loading_status' = FailedStatus
               /\ req' = [req EXCEPT ![r] = LoadRaised(@)]
               /\ UNCHANGED model
    /\ UNCHANGED <<tokenizer, model_name, storage>>

\* TooLong with the ceiling of the truncation for the limit.
TooLongForEncoder(length) == length > EncodeMaxLength

\* if input_ids.shape[1] > 100
TooLong(length) == length > MaxInputTokens

\* predict_next_word from the check of the handles to the check of the
\* encoded length.  n is the number of tokens of the phrase, 0 when
\* tokenizer.encode raises.  tokens is input_ids.shape[1], 0 when there is
\* no input_ids.
encode(r, lengths) ==
    /\ req[r].pc = "encode"
    /\ IF model = None \/ tokenizer = None
       THEN req' = [req EXCEPT ![r] =
                       Reply(@, 500, "none", "Model not loaded")]
       ELSE \E n \in lengths :
               LET rq == [req[r] EXCEPT
                             !.input_phrase = Strip(req[r].phrase),
                             !.tokens = Min(n, EncodeMaxLength)]
               IN  req' = [req EXCEPT ![r] =
                       IF n = 0
                       THEN Reply(rq, 400, "none", "Failed to process input text")
                       ELSE IF TooLong(rq.tokens)
                       THEN Reply(rq, 400, "none", "Input phrase is too long")
                       ELSE [rq EXCEPT !.pc = "forward"]]
    /\ UNCHANGED <<model, tokenizer, model_loading_status, model_name, storage>>

\* PredictionResponse without the check for an empty list.
PredictionResponseUnchecked(rq, top_k_indices, top_k_probs) ==
    LET predictions == FormatResults(<<>>, top_k_indices, top_k_probs, 1)
        ranked == [rq EXCEPT !.ranked = top_k_indices]
    IN  [Reply(ranked, 200, "none", "none") EXCEPT
            !.predictions = predictions,
            !.complete_sentence =
                CompleteSentence(rq.input_phrase,
                    IF predictions # <<>> THEN predictions[1].word ELSE <<>>)]

\* The answer of predict_next_word for a ranking of the candidates.
PredictionResponse(rq, top_k_indices, top_k_probs) ==
    LET predictions == FormatResults(<<>>, top_k_indices, top_k_probs, 1)
        ranked == [rq EXCEPT !.ranked = top_k_indices]
    IN  IF predictions = <<>>
        THEN Reply(ranked, 500, "none", "No valid word predictions available")
        ELSE [Reply(ranked, 200, "none", "none") EXCEPT
                 !.predictions = predictions,
                 !.complete_sentence =
                     CompleteSentence(rq.input_phrase, predictions[1].word)]

\* forward with a failing forward pass recorded in model_loading_status.
forward_marks_error(r, outputs) ==
    /\ req[r].pc = "forward"
    /\ \E logits \in outputs :
          LET rq == [req[r] EXCEPT !.forwards = @ + 1]
          IN  IF logits = <<>>
              THEN /\ req' = [req EXCEPT ![r] =
                              Reply(rq, 500, "none", "AI model processing failed")]
                   /\ model_loading_status' = "error"
              ELSE IF req[r].top_k > Len(logits)
              THEN /\ req' = [req EXCEPT ![r] =
                              Reply(rq, 500, "none",
                                    "Internal server error during prediction")]
                   /\ UNCHANGED model_loading_status
              ELSE LET probabilities == Softmax(logits)
                   IN  /\ \E top_k_indices \in TopK(probabilities, req[r].top_k) :
                           req' = [req EXCEPT ![r] =
                               PredictionResponse(rq, top_k_indices,
                                   [i \in 1..req[r].top_k |->
                                       probabilities[top_k_indices[i]]])]
                       /\ UNCHANGED model_loading_status
    /\ UNCHANGED <<model, tokenizer, model_name, storage>>

\* predict_next_word from the forward pass to the answer.  logits is the
\* output of the model for the last position, <<>> when the model raises.
forward(r, outputs) ==
    /\ req[r].pc = "forward"
    /\ \E logits \in outputs :
          LET rq == [req[r] EXCEPT !.forwards = @ + 1]
          IN  IF logits = <<>>
              THEN req' = [req EXCEPT ![r] =
                              Reply(rq, 500, "none", "AI model processing failed")]
              ELSE IF req[r].top_k > Len(logits)
              THEN req' = [req EXCEPT ![r] =
                              Reply(rq, 500, "none",
                                    "Internal server error during prediction")]
              ELSE LET probabilities == Softmax(logits)
                   IN  \E top_k_indices \in TopK(probabilities, req[r].top_k) :
                           req' = [req EXCEPT ![r] =
                               PredictionResponse(rq, top_k_indices,
                                   [i \in 1..req[r].top_k |->
                                       probabilities[top_k_indices[i]]])]
    /\ UNCHANGED <<model, tokenizer, model_loading_status, model_name, storage>>

\* HealthFields with model_loaded taken from the status.
HealthFieldsByStatus ==
    <<model_loading_status = "loaded", tokenizer # None, model_loading_status,
      IF model_name # None THEN model_name ELSE get_model_name>>

\* model_loaded, tokenizer_loaded, model_loading_status and model_name of
\* the health and status answers.
HealthFields ==
    <<model # None, tokenizer # None, model_loading_status,
      IF model_name # None THEN model_name ELSE get_model_name>>

\* GET /health and GET /api/health
health_check(r) ==
    /\ req[r].pc = "pending"
    /\ req[r].kind = "health"
    /\ ~Busy
    /\ req' = [req EXCEPT ![r] =
                  Reply([@ EXCEPT !.health = HealthFields],
                        200, "healthy", "none")]
    /\ UNCHANGED <<model, tokenizer, model_loading_status, model_name, storage>>

\* The description of get_model_status for the status.
StatusDescription ==
    CASE model_loading_status = "not_loaded" -> "Model has not been loaded yet"
      [] model_loading_status = "loading" -> "Model is currently being loaded"
      [] model_loading_status = "loaded" -> "Model is ready for predictions"
      [] model_loading_status = "error" ->
             "An error occurred while loading the model"
      [] OTHER -> "Unknown status"

\* GET /api/model/status
get_model_status(r) ==
    /\ req[r].pc = "pending"
    /\ req[r].kind = "status"
    /\ ~Busy
    /\ req' = [req EXCEPT ![r] =
                  Reply([@ EXCEPT !.health = HealthFields],
                        200, model_loading_status, StatusDescription)]
    /\ UNCHANGED <<model, tokenizer, model_loading_status, model_name, storage>>

\* ------------------------------------------------------ specifications

\* Connections that may be open at the same time, in Spec.
NumReqs == 2

\* Predict requests one client sends in one window, in Spec.
MaxBurst == 1

\* Client addresses, and predict requests one client sends in one window,
\* in SpecRate.
NumClients == 1

MaxHits == 32

\* The largest top_k_tokens a request asks for, the token ids of the
\* vocabulary and the largest logit, in SpecPredict.
MaxK == 3

NumTokens == 5

MaxLogit == 1

\* The longest of the raw phrases that SpecSanitize takes in full.
MaxRawLen == 3

\* The token ids of the vocabulary in SpecFilter.
PeakTokens == 21

Kinds == {"predict", "load", "health"}

\* Raw phrases of requests: accepted as it is, and rejected.
Phrases == {<<"h", "i">>, <<" ">>}

\* More raw phrases: one that the validator changes, one it rejects for
\* its content.
PhrasesWide ==
    Phrases \cup {<<" ", "h", "i", "\t", " ", "y", "o", "u", "NUL">>,
                  <<"d", "a", "t", "a", ":">>}

\* Token counts tokenizer.encode may produce (0: it raises).
Lengths == {0, 1, 100, 101, 600}

\* What the forward pass may produce: it raises (<<>>), or the logits of
\* the last position.
Outputs(tokens, levels) == {<<>>} \cup [1..tokens -> 0..levels]

\* The requests of Spec and SpecRate ask for one prediction, and the model
\* has a vocabulary of one token.
OneK == {1}

OneToken == Outputs(1, 0)

\* ---- raw phrases for the sanitizer

\* Every text of at most MaxRawLen characters over a letter, the space, a
\* control character, a control character that is whitespace, and a
\* whitespace character that is no control character.
RawAlphabet == {"a", " ", "NUL", "\t", "NBSP"}

ShortPhrases == UNION {[1..n -> RawAlphabet] : n \in 0..MaxRawLen}

\* Whitespace on both sides of a control character, and more of the kind.
CraftedPhrases ==
    {<<"a", " ", "NUL", " ", "b">>,
     <<" ", "NUL", " ", "a", "NBSP", "\t", " ", "b", "DEL", " ">>,
     <<"a", "\n", "b">>,
     <<"o", "n", "=">>,
     <<"<", "s", "c", "r", "i", "p", "t">>,
     <<"e", "v", "a", "l", "u", "a", "t", "e", "(">>}

\* Texts of the kinds the content filter is after.
InjectionTexts ==
    {<<"<", "s", "c", "r", "i", "p", "t", ">">>,
     <<"<", "s", "c", "r", "i", "p", "t", ">", "a", "l", "e", "r", "t", "(", "1", ")", "<", "/", "s", "c", "r", "i", "p", "t", ">">>,
     <<"<", "s", "c", "r", "i", "p", "t", " ", "x", ">">>,
     <<"j", "a", "v", "a", "s", "c", "r", "i", "p", "t", ":">>,
     <<"v", "b", "s", "c", "r", "i", "p", "t", ":">>,
     <<"d", "a", "t", "a", ":">>,
     <<"o", "n", "c", "l", "i", "c", "k", "=">>,
     <<"o", "n", "l", "o", "a", "d", " ", "=">>,
     <<"e", "v", "a", "l", "(">>,
     <<"e", "v", "a", "l", " ", "(">>,
     <<"e", "x", "p", "r", "e", "s", "s", "i", "o", "n", "(">>,
     <<"e", "x", "p", "r", "e", "s", "s", "i", "o", "n", " ", "(">>}

Upper(c) ==
    IF \E i \in 1..26 : LowerCase[i] = c
    THEN UpperCase[CHOOSE i \in 1..26 : LowerCase[i] = c]
    ELSE c

\* t in lower case, in upper case, and with every second letter in upper
\* case.
CaseVariants(t) ==
    {t, [i \in 1..Len(t) |-> Upper(t[i])],
        [i \in 1..Len(t) |-> IF i % 2 = 0 THEN Upper(t[i]) ELSE t[i]]}

\* t, and t with one control character put in after its i-th character.
Interleaved(t) ==
    {t} \cup {SubSeq(t, 1, i) \o <<c>> \o SubSeq(t, i + 1, Len(t)) :
                  i \in 1..(Len(t) - 1), c \in {"NUL", "\n"}}

\* t alone, and t inside other text.
Padded(t) == {t, <<"a", " ">> \o t \o <<" ", "b">>}

InjectionPhrases ==
    UNION {UNION {UNION {Padded(w) : w \in Interleaved(v)} :
                     v \in CaseVariants(t)} : t \in InjectionTexts}

RECURSIVE Repeat(_, _)
Repeat(block, n) == IF n = 0 THEN <<>> ELSE block \o Repeat(block, n - 1)

\* The first n letters of the alphabet.
Letters(n) == SubSeq(LowerCase, 1, n)

\* Blocks of 1, 2, 9, 10 and 11 characters, one with a space and one that
\* the content filter rejects.
Blocks ==
    {Letters(1), Letters(2), Letters(9), Letters(10), Letters(11),
     Letters(4) \o <<" ">> \o Letters(5),
     <<"d", "a", "t", "a", ":">> \o Letters(5)}

\* A block 3, 4 and 5 times in a row, as many times as fill 39, 40 and 41
\* characters, with a control character inside, and 4 times with the last
\* character changed.
RepetitionPhrases ==
    UNION {UNION {Padded(Repeat(b, n)) :
                     n \in {3, 4, 5} \cup {39 \div Len(b), 40 \div Len(b),
                                            (40 \div Len(b)) + 1,
                                            72 \div Len(b)}} : b \in Blocks}
    \cup {Repeat(b, 2) \o <<"NUL">> \o Repeat(b, 2) : b \in Blocks}
    \cup {Repeat(b, 3) \o SubSeq(b, 1, Len(b) - 1) \o <<"z">> : b \in Blocks}
    \cup {Repeat(Letters(10), 21)}

\* A text of n characters in which no block repeats: runs of "a" of
\* growing length, each closed by a "b".
RampText(n) ==
    [i \in 1..n |-> IF \E k \in 1..n : 2 * i = k * (k + 3) THEN "b" ELSE "a"]

\* Phrases at the limit of 200 characters: of 200 characters, of 200 of
\* which one is a control character and one a second space, of 201, and
\* of 201 of which one is a control character.
LongPhrases ==
    {RampText(MaxPhraseLen),
     RampText(MaxPhraseLen - 4) \o <<" ", " ", "a", "NUL">>,
     RampText(MaxPhraseLen + 1),
     RampText(MaxPhraseLen) \o <<"NUL">>}

RawPhrases ==
    ShortPhrases \cup CraftedPhrases \cup InjectionPhrases
        \cup RepetitionPhrases \cup LongPhrases

\* tokenizer.encode answers one token.
OneLength == {1}

\* Logits with one peak: the peak is ranked first and every other token id
\* may follow it.
PeakOutputs(tokens) ==
    {<<>>} \cup {[t \in 1..tokens |-> IF t = p THEN 1 ELSE 0] : p \in 1..tokens}

PeakKs == {1, 2, 3}

\* The server under concurrent requests of every kind, all from one address.
Init == Start(NumReqs, 1)

Next ==
    \/ \E r \in Reqs : Arrive(r, Kinds, Phrases, OneK, MaxBurst)
    \/ \E r \in Reqs : predict_entry(r)
    \/ \E r \in Reqs : ensure_model_loaded(r)
    \/ \E r \in Reqs : load_model(r)
    \/ \E r \in Reqs : load_begin(r)
    \/ \E r \in Reqs : load_tokenizer(r)
    \/ \E r \in Reqs : load_weights(r)
    \/ \E r \in Reqs : model_eval(r)
    \/ \E r \in Reqs : encode(r, Lengths)
    \/ \E r \in Reqs : forward(r, OneToken)
    \/ \E r \in Reqs : health_check(r)
    \/ \E r \in Reqs : Close(r)
    \/ \E c \in Clients : WindowElapse(c)
    \/ StorageReset

Spec == Init /\ [][Next]_vars

\* One client after another sends predict requests over one connection,
\* up to MaxHits in a window.
InitRate == Start(1, NumClients)

NextRate ==
    \/ Arrive(1, {"predict"}, Phrases, OneK, MaxHits)
    \/ predict_entry(1)
    \/ ensure_model_loaded(1)
    \/ load_begin(1)
    \/ load_tokenizer(1)
    \/ load_weights(1)
    \/ model_eval(1)
    \/ encode(1, Lengths)
    \/ forward(1, OneToken)
    \/ Close(1)
    \/ \E c \in Clients : WindowElapse(c)
    \/ StorageReset

SpecRate == InitRate /\ [][NextRate]_vars

\* One connection, predict requests with every top_k_tokens up to MaxK and
\* two outside the range, over the wide vocabulary and over a vocabulary
\* of one token (torch.topk raises for a larger top_k_tokens).
InitPredict == Start(1, 1)

NextPredict ==
    \/ Arrive(1, {"predict"}, PhrasesWide, (0..MaxK) \cup {MaxTopK + 1}, MaxBurst)
    \/ predict_entry(1)
    \/ ensure_model_loaded(1)
    \/ load_begin(1)
    \/ load_tokenizer(1)
    \/ load_weights(1)
    \/ model_eval(1)
    \/ encode(1, Lengths)
    \/ forward(1, Outputs(NumTokens, MaxLogit) \cup OneToken)
    \/ Close(1)
    \/ \E c \in Clients : WindowElapse(c)
    \/ StorageReset

SpecPredict == InitPredict /\ [][NextPredict]_vars

\* One connection, predict requests over the whole modelled vocabulary:
\* every token id can be ranked first, followed by any others.
InitFilter == Start(1, 1)

NextFilter ==
    \/ Arrive(1, {"predict"}, Phrases, PeakKs, MaxBurst)
    \/ predict_entry(1)
    \/ ensure_model_loaded(1)
    \/ load_begin(1)
    \/ load_tokenizer(1)
    \/ load_weights(1)
    \/ model_eval(1)
    \/ encode(1, Lengths)
    \/ forward(1, PeakOutputs(PeakTokens))
    \/ Close(1)
    \/ \E c \in Clients : WindowElapse(c)
    \/ StorageReset

SpecFilter == InitFilter /\ [][NextFilter]_vars

\* One connection, predict requests with the raw phrases for the sanitizer.
InitSanitize == Start(1, 1)

NextSanitize ==
    \/ Arrive(1, {"predict"}, RawPhrases, OneK, MaxBurst)
    \/ predict_entry(1)
    \/ ensure_model_loaded(1)
    \/ load_begin(1)
    \/ load_tokenizer(1)
    \/ load_weights(1)
    \/ model_eval(1)
    \/ encode(1, OneLength)
    \/ forward(1, OneToken)
    \/ Close(1)
    \/ \E c \in Clients : WindowElapse(c)
    \/ StorageReset

SpecSanitize == InitSanitize /\ [][NextSanitize]_vars

\* Two connections: predict and load requests on the first, health and
\* status requests on the second.
InitProbe == Start(2, 1)

NextProbe ==
    \/ Arrive(1, {"predict", "load"}, Phrases, OneK, MaxBurst)
    \/ Arrive(2, {"health", "status"}, Phrases, OneK, MaxBurst)
    \/ predict_entry(1)
    \/ ensure_model_loaded(1)
    \/ load_model(1)
    \/ load_begin(1)
    \/ load_tokenizer(1)
    \/ load_weights(1)
    \/ model_eval(1)
    \/ encode(1, Lengths)
    \/ forward(1, OneToken)
    \/ health_check(2)
    \/ get_model_status(2)
    \/ \E r \in Reqs : Close(r)
    \/ \E c \in Clients : WindowElapse(c)
    \/ StorageReset

SpecProbe == InitProbe /\ [][NextProbe]_vars

\* ----------------------------------------------------------------- claims

\* The request has got past the validation and the limiter.
Counted(rq) == rq.kind = "predict" /\ rq.seq > 0

\* The request is answered and has been through ensure_model_loaded or
\* through load_model.
ReachedLoad(rq) ==
    /\ rq.pc = "done"
    /\ rq.kind = "load" \/ (rq.kind = "predict" /\ rq.http \notin {422, 429})

\* What the caller has learned about the model.
LoadOutcome(rq) ==
    IF rq.exc # 0 THEN "Error"
    ELSE IF rq.status = "already_loading" THEN "Loading"
    ELSE "Loaded"

\* C1: of two requests that were in flight at the same time and have both
\* been through ensure_model_loaded or POST /api/model/load, with the model
\* not loaded (a load ran), exactly one has run load_model_and_tokenizer,
\* and both have learned the same outcome.
C1_SingleLoad ==
    \A r, s \in Reqs :
        ( /\ r # s
          /\ s \in req[r].overlap
          /\ ReachedLoad(req[r])
          /\ ReachedLoad(req[s])
          /\ req[r].loads + req[s].loads >= 1 )
        => /\ req[r].loads + req[s].loads = 1
           /\ LoadOutcome(req[r]) = LoadOutcome(req[s])

StatusSteps ==
    {<<"not_loaded", "loading">>, <<"loading", "loaded">>,
     <<"loading", "error">>, <<"error", "loading">>}

\* C2: model_loading_status changes only along not_loaded -> loading,
\* loading -> loaded, loading -> error and error -> loading, and no load
\* attempt begins while the status is loading.
C2_StatusTransitions ==
    [][ /\ model_loading_status' # model_loading_status
            => <<model_loading_status, model_loading_status'>> \in StatusSteps
        /\ \A r \in Reqs :
              req'[r].loads > req[r].loads => model_loading_status # "loading"
      ]_vars

\* A load attempt that follows a failed one: error -> loading was taken.
C2_Witness ==
    \E r \in Reqs :
        /\ req[r].pc = "load_tokenizer"
        /\ tokenizer # None
        /\ model_loading_status = "loading"

\* C3: whenever no handler is running, model and tokenizer are both set or
\* both absent, and they are set exactly when the status is loaded.
C3_HandlesPaired ==
    ~Busy =>
        /\ (model = None) <=> (tokenizer = None)
        /\ (model # None) <=> (model_loading_status = "loaded")

LoadPcs == {"load_tokenizer", "load_weights", "model_eval"}

\* Request r takes a step of the load attempt that fails: it leaves the
\* attempt without the status becoming loaded.
LoadStepFails(r) ==
    /\ req[r].pc \in LoadPcs
    /\ req'[r].pc \notin LoadPcs
    /\ model_loading_status' # "loaded"

\* C4: when a step of a load attempt fails, the status becomes error, the
\* caller gets an HTTPException with status 500 (POST /api/predict answers
\* 500, POST /api/model/load answers the error payload), and the call has
\* made one load attempt and makes no other.
C4_LoadFailure ==
    [][ \A r \in Reqs :
            LoadStepFails(r) =>
                /\ model_loading_status' = "error"
                /\ req'[r].exc = 500
                /\ req'[r].pc = "done"
                /\ req'[r].loads = 1
                /\ req[r].kind = "predict" => req'[r].http = 500
                /\ req[r].kind = "load" => req'[r].status = "error"
      ]_vars

\* model.eval() has failed: the last step of an attempt, for a predict.
C4_Witness ==
    \E r \in Reqs :
        /\ req[r].pc = "done"
        /\ req[r].kind = "predict"
        /\ req[r].exc = 500
        /\ model # None
        /\ model_loading_status = "error"

\* C5: a POST /api/model/load that finds the status error starts a load
\* attempt, and when the attempt does not fail the status is loaded.
C5_ErrorRecoverable ==
    \A r \in Reqs :
        ( /\ req[r].kind = "load"
          /\ req[r].pc = "done"
          /\ req[r].seen = "error" )
        => /\ req[r].loads = 1
           /\ req[r].exc = 0 => model_loading_status = "loaded"

\* The answer of POST /api/model/load.
LoadAnswerOk(rq) ==
    /\ rq.http = 200
    /\ rq.status \in {"already_loading", "already_loaded", "success", "error"}
    /\ rq.detail # "none"
    /\ (rq.status = "already_loading") <=> (rq.seen = "loading")
    /\ (rq.status = "already_loaded") <=> (rq.seen = "loaded")
    /\ rq.status \in {"already_loading", "already_loaded"} => rq.loads = 0
    /\ (rq.exc # 0) <=> (rq.status = "error")

\* C6: POST /api/model/load answers 200 with one of already_loading (it
\* found the status loading), already_loaded (it found it loaded), success
\* or error with a message; a failed load is the error payload; and when it
\* finds the status loading or loaded it answers at once and changes none
\* of the globals.
C6_LoadEndpoint ==
    /\ [](\A r \in Reqs :
             (req[r].kind = "load" /\ req[r].pc = "done") => LoadAnswerOk(req[r]))
    /\ [][ \A r \in Reqs :
              ( /\ req[r].kind = "load"
                /\ req[r].pc = "pending"
                /\ req'[r].pc # "pending"
                /\ model_loading_status \in {"loading", "loaded"} )
              => /\ req'[r].pc = "done"
                 /\ Globals' = Globals
         ]_vars

\* A load triggered by the endpoint has failed and is answered.
C6_Witness ==
    \E r \in Reqs :
        /\ req[r].kind = "load"
        /\ req[r].pc = "done"
        /\ req[r].exc = 500
        /\ req[r].status = "error"

\* C7: the hits of a key in one window up to the 30th are admitted, every
\* later hit in the window is answered 429 with error and detail, and a
\* request sent after a 429 and after the window has passed is the first
\* of a new window and is admitted.
C7_WindowBudget ==
    \A r \in Reqs :
        Counted(req[r]) =>
            /\ req[r].seq <= RateLimit => req[r].http # 429
            /\ req[r].seq > RateLimit =>
                  /\ req[r].pc = "done"
                  /\ req[r].http = 429
                  /\ req[r].status = "Rate limit exceeded"
                  /\ req[r].detail # "none"
            /\ (req[r].retry /\ req[r].seq = 1) => req[r].http # 429

\* After a 429 the window has passed, and the next request is answered 200.
C7_Witness ==
    \E r \in Reqs :
        /\ Counted(req[r])
        /\ req[r].retry
        /\ req[r].seq = 1
        /\ req[r].http = 200

\* The budget the tests state: range(5), then the 6th request.
TestBudget == 5

\* C8: after the storage is reset, the first 5 predict requests of a client
\* in a window are admitted and the 6th is answered 429 with error "Rate
\* limit exceeded".
C8_FivePerMinute ==
    \A r \in Reqs :
        Counted(req[r]) =>
            /\ req[r].seq <= TestBudget => req[r].http # 429
            /\ req[r].seq = TestBudget + 1 =>
                  /\ req[r].http = 429
                  /\ req[r].status = "Rate limit exceeded"

\* The candidate is skipped by the loop over the top-k candidates.
Dropped(token_id) ==
    \/ Decode(token_id) = DecodeError
    \/ ~IsValidToken(PredictedWord(token_id))

\* C9: a 200 answer of POST /api/predict has at least 1 and at most
\* top_k_tokens predictions, and when every ranked candidate is dropped the
\* answer is the 500 "No valid word predictions available".
C9_Cardinality ==
    \A r \in Reqs :
        (req[r].kind = "predict" /\ req[r].pc = "done") =>
            /\ req[r].http = 200 =>
                  /\ Len(req[r].predictions) >= 1
                  /\ Len(req[r].predictions) <= req[r].top_k
            /\ ( /\ req[r].ranked # <<>>
                 /\ \A i \in 1..Len(req[r].ranked) : Dropped(req[r].ranked[i]) )
               => /\ req[r].http = 500
                  /\ req[r].detail = "No valid word predictions available"
                  /\ req[r].predictions = <<>>

\* Two candidates were ranked and both were dropped.
C9_Witness ==
    \E r \in Reqs :
        /\ req[r].pc = "done"
        /\ Len(req[r].ranked) >= 2
        /\ \A i \in 1..Len(req[r].ranked) : Dropped(req[r].ranked[i])
        /\ req[r].http = 500

\* C10: in a 200 answer of POST /api/predict the probabilities of the
\* predictions do not increase along the list.
C10_Ranking ==
    \A r \in Reqs :
        (req[r].kind = "predict" /\ req[r].pc = "done" /\ req[r].http = 200) =>
            \A i \in 1..(Len(req[r].predictions) - 1) :
                req[r].predictions[i].probability
                    >= req[r].predictions[i + 1].probability

\* A candidate was dropped and two of different probability are returned.
C10_Witness ==
    \E r \in Reqs :
        /\ req[r].pc = "done"
        /\ req[r].http = 200
        /\ Len(req[r].predictions) >= 2
        /\ Len(req[r].ranked) > Len(req[r].predictions)
        /\ req[r].predictions[1].probability > req[r].predictions[2].probability

\* Text without its whitespace.
Squeeze(w) == SelectSeq(w, LAMBDA c : c \notin Whitespace)

\* "..", "...", longer rows of dots, dots separated by spaces, and the
\* unicode ellipsis.
IsEllipsis(w) ==
    \/ Squeeze(w) = <<"ELL">>
    \/ /\ Len(Squeeze(w)) >= 2
       /\ \A i \in 1..Len(Squeeze(w)) : Squeeze(w)[i] = "."

\* The symbol denylist of the filter.
SymbolDenylist ==
    {"<", ">", "{", "}", "[", "]", "BSLASH", "|", "BTICK", "~", "@", "#",
     "$", "%", "^", "&", "*", "+", "="}

OnlySymbols(w) ==
    w # <<>> /\ \A i \in 1..Len(w) : w[i] \in SymbolDenylist

\* C11: no word of the predictions of a predict answer is an ellipsis or
\* consists only of characters of the symbol denylist, whatever the ranked
\* token ids decode to.
C11_NoEllipsisNoSymbols ==
    \A r \in Reqs :
        (req[r].kind = "predict" /\ req[r].pc = "done") =>
            \A i \in 1..Len(req[r].predictions) :
                /\ ~IsEllipsis(req[r].predictions[i].word)
                /\ ~OnlySymbols(req[r].predictions[i].word)

\* An ellipsis and a row of symbols were ranked with a word, and the
\* answer has the word alone.
C11_Witness ==
    \E r \in Reqs :
        /\ req[r].pc = "done"
        /\ req[r].http = 200
        /\ Len(req[r].predictions) = 1
        /\ \E i, j \in 1..Len(req[r].ranked) :
              /\ Decode(req[r].ranked[i]) # DecodeError
              /\ Decode(req[r].ranked[j]) # DecodeError
              /\ IsEllipsis(PredictedWord(req[r].ranked[i]))
              /\ OnlySymbols(PredictedWord(req[r].ranked[j]))

\* The payload fails validation: the sanitizer rejects the phrase, or
\* top_k_tokens is outside 1..10.
FailsValidation(rq) ==
    \/ IsValueError(validate_input_phrase(rq.raw))
    \/ rq.top_k \notin 1..10

\* C12: the step that takes up a predict request whose payload fails
\* validation answers it with 422: no load attempt is started, nothing is
\* tokenized or ranked, and model, tokenizer, model_loading_status and
\* model_name keep their values.
C12_FailFast ==
    [][ \A r \in Reqs :
            ( /\ req[r].kind = "predict"
              /\ req[r].pc = "pending"
              /\ req'[r].pc # "pending"
              /\ FailsValidation(req[r]) )
            => /\ req'[r].pc = "done"
               /\ req'[r].http = 422
               /\ req'[r].loads = 0
               /\ req'[r].input_phrase = <<>>
               /\ req'[r].ranked = <<>>
               /\ req'[r].predictions = <<>>
               /\ Globals' = Globals
      ]_vars

\* A request with a good phrase and top_k_tokens = 11 is answered 422
\* while nothing is loaded.
C12_Witness ==
    \E r \in Reqs :
        /\ req[r].pc = "done"
        /\ req[r].http = 422
        /\ req[r].top_k > 10
        /\ ~IsValueError(validate_input_phrase(req[r].raw))
        /\ model_loading_status = "not_loaded"

\* The sanitizer accepts the raw phrase of the request.
Accepted(rq) ==
    rq.kind = "predict" /\ ~IsValueError(validate_input_phrase(rq.raw))

\* C13: for every raw phrase that validate_input_phrase accepts, it accepts
\* its own result too and returns it as it is.
C13_Idempotent ==
    \A r \in Reqs :
        Accepted(req[r]) =>
            /\ ~IsValueError(
                   validate_input_phrase(validate_input_phrase(req[r].raw)))
            /\ validate_input_phrase(validate_input_phrase(req[r].raw))
                  = validate_input_phrase(req[r].raw)

\* A request is past the validation with a phrase the sanitizer has
\* changed in more than its ends: a control character between two spaces
\* is gone and one space is left.
C13_Witness ==
    \E r \in Reqs :
        /\ Counted(req[r])
        /\ req[r].raw = <<"a", " ", "NUL", " ", "b">>
        /\ req[r].phrase = <<"a", " ", "b">>

\* C14: the sanitized phrase of an accepted input has 1 to 200 characters,
\* no control character, no whitespace at its ends and no two whitespace
\* characters in a row.
C14_SanitizedShape ==
    \A r \in Reqs :
        Counted(req[r]) =>
            LET t == req[r].phrase
            IN  /\ Len(t) >= 1
                /\ Len(t) <= 200
                /\ \A i \in 1..Len(t) : t[i] \notin ControlChars
                /\ t[1] \notin Whitespace
                /\ t[Len(t)] \notin Whitespace
                /\ \A i \in 1..(Len(t) - 1) :
                      ~(t[i] \in Whitespace /\ t[i + 1] \in Whitespace)

\* A raw phrase of 200 characters with a control character and two spaces
\* in a row is accepted, and its sanitized phrase is shorter.
C14_Witness ==
    \E r \in Reqs :
        /\ Counted(req[r])
        /\ Len(req[r].raw) = 200
        /\ Len(req[r].phrase) < 200
        /\ \E i \in 1..Len(req[r].raw) : req[r].raw[i] \in ControlChars

\* word stands in t at position i, in any letter case.
FoldedAt(t, i, word) ==
    /\ i + Len(word) - 1 <= Len(t)
    /\ \A j \in 1..Len(word) : Upper(t[i + j - 1]) = Upper(word[j])

\* A script tag opening: "<script", then ">" anywhere after it.
ScriptTagIn(t) ==
    \E i \in 1..Len(t) :
        /\ FoldedAt(t, i, Lit("<script"))
        /\ \E j \in (i + 7)..Len(t) : t[j] = ">"

SchemeIn(t) ==
    \E i \in 1..Len(t) :
        \E w \in {"javascript:", "vbscript:", "data:"} : FoldedAt(t, i, Lit(w))

\* on<name>= with a name of one or more word characters, and whitespace
\* allowed before the "=".
EventHandlerIn(t) ==
    \E i \in 1..Len(t) :
        /\ FoldedAt(t, i, Lit("on"))
        /\ \E j \in (i + 2)..Len(t) :
              /\ \A m \in (i + 2)..j : t[m] \in WordChars
              /\ \E k \in (j + 1)..Len(t) :
                    /\ t[k] = "="
                    /\ \A m \in (j + 1)..(k - 1) : t[m] \in Whitespace

\* eval( or expression(, whitespace allowed before the "(".
CallIn(t) ==
    \E i \in 1..Len(t) :
        \E w \in {"eval", "expression"} :
            /\ FoldedAt(t, i, Lit(w))
            /\ \E k \in (i + Len(Lit(w)))..Len(t) :
                  /\ t[k] = "("
                  /\ \A m \in (i + Len(Lit(w)))..(k - 1) : t[m] \in Whitespace

Injection(t) == ScriptTagIn(t) \/ SchemeIn(t) \/ EventHandlerIn(t) \/ CallIn(t)

\* The request has been taken up: its payload was validated.
Validated(rq) == rq.kind = "predict" /\ rq.pc \notin {"idle", "pending"}

\* The answer is a validation error and the request holds no sanitized
\* value.
Refused(rq) ==
    /\ rq.pc = "done"
    /\ rq.http = 422
    /\ rq.seq = 0
    /\ rq.phrase = rq.raw
    /\ rq.input_phrase = <<>>

\* C15: every input whose text, after the control characters are removed
\* and the whitespace is collapsed, holds a script tag opening, a
\* javascript:, vbscript: or data: scheme, an on<name>= handler or an
\* eval( or expression( call, in any letter case, is answered with a
\* validation error and no sanitized value; so is every phrase built from
\* such a text by a change of case or a control character put inside.
C15_InjectionRejected ==
    \A r \in Reqs :
        Validated(req[r]) =>
            /\ Injection(sanitized_text(req[r].raw)) => Refused(req[r])
            /\ req[r].raw \in InjectionPhrases => Refused(req[r])

\* A script tag in upper case with a control character inside it was
\* refused.
C15_Witness ==
    \E r \in Reqs :
        /\ Refused(req[r])
        /\ req[r].raw \in InjectionPhrases
        /\ ScriptTagIn(sanitized_text(req[r].raw))
        /\ \E i \in 1..Len(req[r].raw) : req[r].raw[i] = "NUL"
        /\ \E i \in 1..Len(req[r].raw) : req[r].raw[i] = "S"

\* t holds a block of at least 10 characters 4 times in a row: a stretch
\* of 4 * n characters in which every character comes again n places on.
HasRepeatedBlock(t) ==
    \E n \in 10..Len(t) :
        \E i \in 1..Len(t) :
            /\ i + 4 * n - 1 <= Len(t)
            /\ \A j \in i..(i + 3 * n - 1) : t[j] = t[j + n]

RepetitionMessage == "Input contains excessive repetition"

\* C16 as stated: every input whose sanitized text holds a block of at
\* least 10 characters 4 times in a row is rejected as excessive
\* repetition, and no input without such a block is rejected by the
\* repetition rule.
C16_RepetitionRule ==
    \A r \in Reqs :
        Validated(req[r]) =>
            IF HasRepeatedBlock(sanitized_text(req[r].raw))
            THEN Refused(req[r]) /\ req[r].detail = RepetitionMessage
            ELSE req[r].detail # RepetitionMessage

\* C16 amended: every input whose sanitized text holds a block of at least
\* 10 characters 4 times in a row is rejected; it is rejected as
\* excessive repetition when the submitted phrase has at most 200
\* characters and the sanitized text holds none of the denylist patterns
\* (those rules come first and name themselves); and no input without such
\* a block is rejected by the repetition rule.
C16_RepetitionRuleInOrder ==
    \A r \in Reqs :
        Validated(req[r]) =>
            IF HasRepeatedBlock(sanitized_text(req[r].raw))
            THEN /\ Refused(req[r])
                 /\ ( /\ Len(req[r].raw) <= 200
                      /\ ~Injection(sanitized_text(req[r].raw)) )
                    => req[r].detail = RepetitionMessage
            ELSE req[r].detail # RepetitionMessage

\* A block of 10 characters exactly 4 times, with a control character in
\* the raw phrase, was rejected as excessive repetition.
C16_Witness ==
    \E r \in Reqs :
        /\ Refused(req[r])
        /\ req[r].detail = RepetitionMessage
        /\ Len(sanitized_text(req[r].raw)) = 40
        /\ Len(req[r].raw) = 41

\* The text needs no cleaning: no control character, and whitespace only
\* as single spaces between other characters.
IsClean(t) ==
    /\ t # <<>>
    /\ \A i \in 1..Len(t) :
          /\ t[i] \notin ControlChars
          /\ t[i] \in Whitespace =>
                /\ t[i] = " "
                /\ i > 1 /\ i < Len(t)
                /\ t[i - 1] \notin Whitespace

\* C17: the text that predict_next_word hands to the tokenizer and echoes
\* as input_phrase is the sanitized form of the raw phrase of the request,
\* and it is the raw phrase itself when that needs no cleaning.
C17_SanitizedDownstream ==
    \A r \in Reqs :
        (req[r].kind = "predict" /\ req[r].input_phrase # <<>>) =>
            /\ req[r].input_phrase = validate_input_phrase(req[r].raw)
            /\ IsClean(req[r].input_phrase)
            /\ IsClean(req[r].raw) => req[r].input_phrase = req[r].raw

\* A 200 answer echoes a phrase that differs from the raw one, which had
\* a control character and a row of whitespace inside.
C17_Witness ==
    \E r \in Reqs :
        /\ req[r].pc = "done"
        /\ req[r].http = 200
        /\ req[r].raw = <<"a", " ", "NUL", " ", "b">>
        /\ req[r].input_phrase = <<"a", " ", "b">>

\* C18: in a 200 answer of POST /api/predict, complete_sentence is
\* input_phrase, a space and the word of the first prediction, with the
\* whitespace at the ends removed, and the first prediction is the first
\* of the ranked candidates that was not dropped.
C18_CompleteSentence ==
    \A r \in Reqs :
        (req[r].kind = "predict" /\ req[r].pc = "done" /\ req[r].http = 200) =>
            /\ req[r].complete_sentence =
                  Strip(req[r].input_phrase \o <<" ">>
                            \o req[r].predictions[1].word)
            /\ \E i \in 1..Len(req[r].ranked) :
                  /\ req[r].predictions[1].token_id = req[r].ranked[i]
                  /\ req[r].predictions[1].word = PredictedWord(req[r].ranked[i])
                  /\ ~Dropped(req[r].ranked[i])
                  /\ \A j \in 1..(i - 1) : Dropped(req[r].ranked[j])

\* The candidate ranked first was dropped, and the word of the next one
\* ends in a space that the sentence does not have.
C18_Witness ==
    \E r \in Reqs :
        /\ req[r].pc = "done"
        /\ req[r].http = 200
        /\ Dropped(req[r].ranked[1])
        /\ req[r].predictions[1].word = <<"a", " ">>
        /\ req[r].complete_sentence = <<"h", "i", " ", "a">>

\* C19: the step that answers a health request answers 200 with status
\* healthy, reports model_loaded, tokenizer_loaded and model_loading_status
\* as the globals are, starts no load and changes none of the globals.
C19_HealthReadOnly ==
    [][ \A r \in Reqs :
            ( /\ req[r].kind = "health"
              /\ req[r].pc = "pending"
              /\ req'[r].pc # "pending" )
            => /\ req'[r].pc = "done"
               /\ req'[r].http = 200
               /\ req'[r].status = "healthy"
               /\ req'[r].health[1] = (model # None)
               /\ req'[r].health[2] = (tokenizer # None)
               /\ req'[r].health[3] = model_loading_status
               /\ req'[r].loads = 0
               /\ Globals' = Globals
      ]_vars

\* A health request was answered with the status error while the model
\* and the tokenizer are assigned.
C19_Witness ==
    \E r \in Reqs :
        /\ req[r].kind = "health"
        /\ req[r].pc = "done"
        /\ req[r].http = 200
        /\ req[r].health[3] = "error"
        /\ req[r].health[1]
        /\ req[r].health[2]

\* The request asks for the health or the status.
IsProbe(rq) == rq.kind \in {"health", "status"}

\* A load attempt or the forward pass of the request is in progress.
InModelWork(rq) == rq.pc \in LoadPcs \cup {"forward"}

\* C20: a health or status request that waits while a load or a forward
\* pass of another request is in progress can be answered at once.
C20_ProbeNotBlocked ==
    \A r, s \in Reqs :
        ( /\ IsProbe(req[r])
          /\ req[r].pc = "pending"
          /\ InModelWork(req[s]) )
        => ENABLED (health_check(r) \/ get_model_status(r))

\* C21: a predict request whose tokenizer.encode raised, or whose encoded
\* sequence has more than 100 tokens, is answered 400 and has run no
\* forward pass; a request whose forward pass gave no ranking is answered
\* 500 with no predictions; and no request runs the forward pass twice.
C21_AbortAtFirstFailure ==
    \A r \in Reqs :
        req[r].kind = "predict" =>
            /\ (req[r].tokens = 0 \/ req[r].tokens > 100) =>
                  /\ req[r].pc = "done"
                  /\ req[r].http = 400
                  /\ req[r].forwards = 0
                  /\ req[r].ranked = <<>>
                  /\ req[r].predictions = <<>>
            /\ (req[r].forwards > 0 /\ req[r].ranked = <<>>) =>
                  /\ req[r].pc = "done"
                  /\ req[r].http = 500
                  /\ req[r].predictions = <<>>
            /\ req[r].forwards <= 1
            /\ req[r].forwards = 1 => req[r].tokens \in 1..100

\* A sequence that was cut to 512 tokens was answered 400 with no forward
\* pass.
C21_Witness ==
    \E r \in Reqs :
        /\ req[r].pc = "done"
        /\ req[r].tokens = 512
        /\ req[r].http = 400
        /\ req[r].forwards = 0

\* The candidates of a ranking that decode and pass the filter, in order.
Survivors(ranked) == SelectSeq(ranked, LAMBDA t : ~Dropped(t))

\* C22: a candidate whose decode raises is the only one dropped for it:
\* the predictions of an answered request are exactly the ranked
\* candidates that decode and pass the filter, each with its own word, and
\* the request succeeds whenever one of them survives.
C22_DecodeFailureLocal ==
    \A r \in Reqs :
        (req[r].pc = "done" /\ req[r].ranked # <<>>) =>
            LET kept == Survivors(req[r].ranked)
            IN  /\ kept # <<>> =>
                      /\ req[r].http = 200
                      /\ Len(req[r].predictions) = Len(kept)
                      /\ \A i \in 1..Len(kept) :
                            /\ req[r].predictions[i].token_id = kept[i]
                            /\ req[r].predictions[i].word =
                                   RemoveControl(Strip(Decode(kept[i])))
                /\ kept = <<>> =>
                      /\ req[r].http = 500
                      /\ req[r].predictions = <<>>

\* A ranking with a valid candidate before and after one whose decode
\* raised, answered with both valid candidates.
C22_Witness ==
    \E r \in Reqs :
        /\ req[r].pc = "done"
        /\ req[r].http = 200
        /\ Len(req[r].ranked) = 3
        /\ Decode(req[r].ranked[2]) = DecodeError
        /\ Len(req[r].predictions) = 2
        /\ req[r].predictions[1].token_id = req[r].ranked[1]
        /\ req[r].predictions[2].token_id = req[r].ranked[3]

\* The positions of a request inside load_model_and_tokenizer.
InLoadAttempt(rq) == rq.pc \in {"load"} \cup LoadPcs

\* The position of a predict request after ensure_model_loaded returned.
PastLoad(rq) == rq.kind = "predict" /\ rq.pc \in {"encode", "forward"}

\* C23: a step of a predict request past its load attempt leaves model,
\* tokenizer, model_loading_status and model_name as they were, whatever
\* its answer; a step that changes one of them is a step of a request
\* inside load_model_and_tokenizer.
C23_PredictFailureFrame ==
    [][ /\ \A r \in Reqs :
              (PastLoad(req[r]) /\ req'[r] # req[r]) => Globals' = Globals
        /\ Globals' # Globals =>
              \E r \in Reqs : InLoadAttempt(req[r]) /\ req'[r] # req[r]
      ]_vars

\* A predict request answered 500 for an unexpected error after a load
\* that completed.
C23_Witness ==
    \E r \in Reqs :
        /\ req[r].kind = "predict"
        /\ req[r].pc = "done"
        /\ req[r].http = 500
        /\ req[r].detail = "Internal server error during prediction"
        /\ req[r].forwards = 1
        /\ model_loading_status = "loaded"
        /\ model # None
        /\ tokenizer # None

\* C24: every word of a predict response is non-empty, has at most 50
\* characters, holds no control character, and neither starts nor ends
\* with whitespace.
C24_WordShape ==
    \A r \in Reqs :
        \A i \in 1..Len(req[r].predictions) :
            LET word == req[r].predictions[i].word
            IN  /\ Len(word) >= 1
                /\ Len(word) <= 50
                /\ \A j \in 1..Len(word) : word[j] \notin ControlChars
                /\ word[1] \notin Whitespace
                /\ word[Len(word)] \notin Whitespace

\* C25: the decision on input_phrase follows its sanitized form: every
\* phrase whose text, after the control characters are removed and the
\* whitespace is collapsed, has 1 to 200 characters, none of the denylist
\* patterns and no repeated block is accepted, whatever the length of the
\* phrase as submitted.
C25_DecisionBySanitized ==
    \A r \in Reqs :
        Validated(req[r]) =>
            LET sanitized == sanitized_text(req[r].raw)
            IN  ( /\ Len(sanitized) >= 1
                  /\ Len(sanitized) <= 200
                  /\ ~Injection(sanitized)
                  /\ ~HasRepeatedBlock(sanitized) )
                => /\ req[r].http # 422
                   /\ req[r].phrase = sanitized

\* C26: when POST /api/model/load answers with status success,
\* model_loading_status is loaded and model and tokenizer are both set at
\* that moment.
C26_SuccessMeansLoaded ==
    [][ \A r \in Reqs :
            ( /\ req[r].kind = "load"
              /\ req[r].pc # "done"
              /\ req'[r].pc = "done"
              /\ req'[r].status = "success" )
            => /\ model_loading_status' = "loaded"
               /\ model' # None
               /\ tokenizer' # None
      ]_vars

\* C27: a forward pass runs only while model_loading_status is loaded and
\* on a model that was switched to evaluation mode.
C27_ForwardOnlyWhenLoaded ==
    [][ \A r \in Reqs :
            req'[r].forwards > req[r].forwards
            => /\ model_loading_status = "loaded"
               /\ model = "model.eval"
      ]_vars

====
